---- MODULE Spec2Model ----
(***************************************************************************)
(* A model of yiv-lib (src/yiv-lib.h, src/yiv-lib.cpp): the Image pixel    *)
(* buffer with its loaders, transforms and filters, and the mutex-guarded  *)
(* ImageList.                                                              *)
(*                                                                         *)
(* Spec     : one Image, driven from the empty Image by any sequence of    *)
(*            its public operations.                                       *)
(* SpecList : one ImageList shared by several threads.                     *)
(***************************************************************************)
EXTENDS Integers, Sequences, FiniteSets, TLC

VARIABLES
    img,      \* the Image: [w, h, c, px] = m_width, m_height, m_channels, m_pixels
    call,     \* the last call on the Image: its name, arguments and outcome
    streak,   \* the Image before the current run of rotations, and the
              \* quarter turns made since
    ops,      \* calls of loadFromFile, loadPartial, scale and applyFilter so far
    m_images, \* the ImageList: its entries, in order
    m_mutex,  \* TRUE while m_mutex is locked
    pc,       \* pc[t]: where thread t is in its call on the ImageList
    op,       \* op[t]: the call thread t is in, with its arguments
    ext,      \* ext[t]: t has called lock() and not yet unlock()
    ret,      \* ret[t]: what t's call is about to return
    before,   \* before[t]: the entries as t's sort found them
    serial,   \* the entries of the abstract sequence the calls act on, each
              \* call taking effect in full as it enters its critical section
    expect,   \* expect[t]: what the abstract sequence answers to t's call
    scen,     \* how far the first calls that change the list have followed
              \* add(a); add(b); remove(0)
    calls,    \* calls started on the ImageList so far
    fault     \* TRUE once a call has indexed m_images out of range

imageVars == <<img, call, streak, ops>>
listVars == <<m_images, m_mutex, pc, op, ext, ret, before, serial, expect,
              scen, calls, fault>>
vars == <<imageVars, listVars>>

(***************************************************************************)
(* Bounds of the model.                                                    *)
(***************************************************************************)
\* scale() is explored only while the result is at most MaxSide wide and high.
MaxSide == 4
\* At most MaxOps calls of loadFromFile(), loadPartial(), scale() and
\* applyFilter() in one run; rotations and thumbnails are not counted.
MaxOps == 2
\* At most MaxCalls calls are started on the ImageList in one run.
MaxCalls == 4

\* The largest value of the C++ type int (the parameters of loadPartial).
IntMax == 2147483647
IntMin == -IntMax - 1

(***************************************************************************)
(* Arithmetic of the C++ types.                                            *)
(***************************************************************************)
\* int(n / d) for d > 0: conversion to int truncates toward zero.
Trunc(n, d) == IF n >= 0 THEN n \div d ELSE -((-n) \div d)

\* a + b does not fit an int (signed overflow: undefined behaviour).
AddOverflows(a, b) ==
    IF b >= 0 THEN a > IntMax - b ELSE a < IntMin - b

Zeros(n) == [i \in 1..n |-> 0]

(***************************************************************************)
(* Image: m_width, m_height, m_channels, m_pixels.                         *)
(***************************************************************************)
EmptyImage == [w |-> 0, h |-> 0, c |-> 0, px |-> <<>>]

\* m_pixels.assign(data, data + width*height*channels)
UpdatePixelData(data, width, height, channels) ==
    [w |-> width, h |-> height, c |-> channels,
     px |-> SubSeq(data, 1, width * height * channels)]

(***************************************************************************)
(* What stbi_load hands back: width, height >= 1, 1..4 channels and        *)
(* width*height*channels bytes; or null for a file it cannot decode.       *)
(***************************************************************************)
FileByte(i, c) == (37 * i + 11 * c) % 256

DecodedFile(width, height, channels) ==
    [w |-> width, h |-> height, c |-> channels,
     px |-> [i \in 1..(width * height * channels) |-> FileByte(i, channels)]]

NoFile == [w |-> 0, h |-> 0, c |-> 0, px |-> <<>>]

Files == { DecodedFile(2, 1, 1), DecodedFile(1, 2, 2),
           DecodedFile(2, 2, 3), DecodedFile(2, 2, 4) }

Paths == Files \cup {NoFile}

\* Arguments of loadPartial: any int.  The pairs <<x, w>> and <<y, h>>
\* explored: inside the file, past its edge, empty, negative, and with a
\* sum that does not fit an int.
Spans == { <<-1, 1>>, <<0, -1>>, <<0, 0>>, <<0, 1>>, <<0, 2>>,
           <<1, -1>>, <<1, 0>>, <<1, 1>>, <<1, 2>>, <<IntMax, 1>> }

Running == call.ret # "ub"

Restart(i) == [base |-> i, turns |-> 0]

(***************************************************************************)
(* bool Image::loadFromFile(path)                                          *)
(***************************************************************************)
LoadFromFile(f) ==
    /\ Running /\ ops < MaxOps
    /\ IF f = NoFile
       THEN /\ img' = img
            /\ call' = [op |-> "loadFromFile", file |-> f, ret |-> "false"]
       ELSE /\ img' = UpdatePixelData(f.px, f.w, f.h, f.c)
            /\ call' = [op |-> "loadFromFile", file |-> f, ret |-> "true"]
    /\ streak' = Restart(img')
    /\ ops' = ops + 1
    /\ UNCHANGED listVars

(***************************************************************************)
(* bool Image::loadPartial(path, x, y, w, h)                               *)
(***************************************************************************)
\* The rows memcpy'd out of the decoded file into partialPixels, which is
\* value-initialised (all zero) and w*h*channels long.
PartialPixels(f, x, y, w, h) ==
    IF h > 0 /\ w > 0
    THEN [i \in 1..(w * h * f.c) |->
            LET row == (i - 1) \div (w * f.c)
                off == (i - 1) % (w * f.c)
            IN  f.px[((y + row) * f.w + x) * f.c + off + 1]]
    ELSE Zeros(w * h * f.c)

\* The bounds test of line 33, evaluated left to right in int arithmetic:
\* "reject", "accept", or "overflow" when x + w or y + h overflows.
RegionCheck(f, x, y, w, h) ==
    IF x < 0 \/ y < 0 THEN "reject"
    ELSE IF AddOverflows(x, w) THEN "overflow"
    ELSE IF x + w > f.w THEN "reject"
    ELSE IF AddOverflows(y, h) THEN "overflow"
    ELSE IF y + h > f.h THEN "reject"
    ELSE "accept"

LoadPartial(f, x, y, w, h) ==
    /\ Running /\ ops < MaxOps
    /\ LET chk == RegionCheck(f, x, y, w, h)
           done(r) == [op |-> "loadPartial", file |-> f,
                       x |-> x, y |-> y, w |-> w, h |-> h, ret |-> r]
       IN  IF f = NoFile \/ chk = "reject"
           THEN img' = img /\ call' = done("false")
           ELSE IF chk = "overflow"
           THEN \* Signed overflow in the test: the build may reject, may
                \* crash in the memcpy from a wild address, or may return
                \* true with whatever bytes lie at that address.
                \/ img' = img /\ call' = done("false")
                \/ img' = img /\ call' = done("ub")
                \/ /\ w > 0 /\ h > 0
                   /\ \E g \in {0, 255} :
                        img' = [w |-> w, h |-> h, c |-> f.c,
                                px |-> [i \in 1..(w * h * f.c) |-> g]]
                   /\ call' = done("ub")
           ELSE IF w * h * f.c < 0
           THEN \* std::vector(size_t(negative)) throws std::length_error
                img' = img /\ call' = done("throw")
           ELSE /\ img' = UpdatePixelData(PartialPixels(f, x, y, w, h),
                                          w, h, f.c)
                /\ call' = done("true")
    /\ streak' = Restart(img')
    /\ ops' = ops + 1
    /\ UNCHANGED listVars

(***************************************************************************)
(* void Image::rotateClockwise(), rotateCounterClockwise()                 *)
(***************************************************************************)
\* The loops over y and x, n counting their iterations: iteration n copies
\* the channels of source pixel (x, y), at index (y*w + x)*c, to index
\* (x*h + (h - y - 1))*c.
RECURSIVE RotateFill(_, _, _)
RotateFill(rotated, i, n) ==
    IF n >= i.w * i.h THEN rotated
    ELSE LET y == n \div i.w
             x == n % i.w
             src == (y * i.w + x) * i.c
             dst == (x * i.h + (i.h - y - 1)) * i.c
         IN  RotateFill([j \in 1..Len(rotated) |->
                            IF j > dst /\ j <= dst + i.c
                            THEN i.px[src + (j - dst)]
                            ELSE rotated[j]],
                        i, n + 1)

\* rotateClockwise without line 71, the swap of m_width and m_height
RotateClockwiseNoSwap(i) ==
    [w |-> i.w, h |-> i.h, c |-> i.c,
     px |-> IF i.w > 0 /\ i.h > 0 /\ i.c > 0
            THEN RotateFill(Zeros(Len(i.px)), i, 0)
            ELSE Zeros(Len(i.px))]

RotateClockwise(i) ==
    [w |-> i.h, h |-> i.w, c |-> i.c,
     px |-> IF i.w > 0 /\ i.h > 0 /\ i.c > 0
            THEN RotateFill(Zeros(Len(i.px)), i, 0)
            ELSE Zeros(Len(i.px))]

RotateCounterClockwise(i) == RotateClockwise(RotateClockwise(RotateClockwise(i)))

\* k more quarter turns in the current run of rotations; a run that has
\* come full circle starts again.
Turn(k) ==
    IF streak.turns >= 4
    THEN [base |-> img, turns |-> k]
    ELSE [base |-> streak.base, turns |-> streak.turns + k]

DoRotateClockwise ==
    /\ Running
    /\ img' = RotateClockwise(img)
    /\ call' = [op |-> "rotateClockwise", ret |-> "ok"]
    /\ streak' = Turn(1)
    /\ UNCHANGED <<ops, listVars>>

DoRotateCounterClockwise ==
    /\ Running
    /\ img' = RotateCounterClockwise(img)
    /\ call' = [op |-> "rotateCounterClockwise", ret |-> "ok"]
    /\ streak' = Turn(3)
    /\ UNCHANGED <<ops, listVars>>

(***************************************************************************)
(* void Image::scale(float factor), factor = p/q with q > 0.               *)
(* The factors explored are multiples of 1/2, which float holds exactly;   *)
(* generateThumbnail passes maxWidth/m_width or maxHeight/m_height, and    *)
(* for the sizes explored here float arithmetic gives the same integers    *)
(* as the exact quotient.                                                  *)
(***************************************************************************)
NewSide(side, p, q) == Trunc(side * p, q)

\* int(x / factor)
SrcCoord(x, p, q) == Trunc(x * q, p)

\* Byte n (from 0) of newPixels: destination (x, y), channel k.
ScaleSource(i, p, q, n) ==
    LET newW == NewSide(i.w, p, q)
        y == n \div (newW * i.c)
        x == (n \div i.c) % newW
        k == n % i.c
    IN  (SrcCoord(y, p, q) * i.w + SrcCoord(x, p, q)) * i.c + k

ScaleThrows(i, p, q) ==
    p > 0 /\ NewSide(i.w, p, q) * NewSide(i.h, p, q) * i.c < 0

Scale(i, p, q) ==
    IF p <= 0 THEN i
    ELSE LET newW == NewSide(i.w, p, q)
             newH == NewSide(i.h, p, q)
             len == newW * newH * i.c
         IN  [w |-> newW, h |-> newH, c |-> i.c,
              px |-> IF newW > 0 /\ newH > 0
                     THEN [n \in 1..len |-> i.px[ScaleSource(i, p, q, n - 1) + 1]]
                     ELSE Zeros(len)]

ScaleNums == {-1, 0, 1, 2, 3, 4}

DoScale(p) ==
    /\ Running /\ ops < MaxOps
    /\ NewSide(img.w, p, 2) <= MaxSide /\ NewSide(img.h, p, 2) <= MaxSide
    /\ IF ScaleThrows(img, p, 2)
       THEN img' = img /\ call' = [op |-> "scale", num |-> p, ret |-> "throw"]
       ELSE img' = Scale(img, p, 2)
            /\ call' = [op |-> "scale", num |-> p, ret |-> "ok"]
    /\ streak' = Restart(img')
    /\ ops' = ops + 1
    /\ UNCHANGED listVars

(***************************************************************************)
(* void Image::applyFilter(FilterType type)                                *)
(*                                                                         *)
(* Grayscale computes 0.3*R + 0.59*G + 0.11*B in double.  A double d with  *)
(* 0 <= d < 256 is held here exactly, as <<hi, a, b, c>> standing for      *)
(* hi + a/2^20 + b/2^40 + c/2^60 with a, b, c < 2^20, and every product    *)
(* and sum is rounded to 53 significant bits, ties to even, as the         *)
(* hardware does.                                                          *)
(***************************************************************************)
Limb == 1048576

Carry(hi, a, b, c) ==
    LET b0 == b + c \div Limb
        a0 == a + b0 \div Limb
    IN  <<hi + a0 \div Limb, a0 % Limb, b0 % Limb, c % Limb>>

RECURSIVE Pow2(_)
Pow2(e) == IF e = 0 THEN 1 ELSE 2 * Pow2(e - 1)

RECURSIVE BitLen(_)
BitLen(n) == IF n = 0 THEN 0 ELSE 1 + BitLen(n \div 2)

\* v lies in [2^(bits-21), 2^(bits-20)), so one unit in its last place is
\* 2^(bits-13) units of 2^-60.
RoundDouble(v) ==
    LET bits == IF v[1] > 0 THEN BitLen(v[1]) + 20 ELSE BitLen(v[2])
        u == IF bits >= 13 THEN Pow2(bits - 13) ELSE 1
        r == v[4] % u
        odd == (v[4] \div u) % 2 = 1
        up == 2 * r > u \/ (2 * r = u /\ odd)
    IN  IF v[1] = 0 /\ v[2] = 0 THEN v
        ELSE Carry(v[1], v[2], v[3], IF up THEN v[4] - r + u ELSE v[4] - r)

\* The double literals 0.3, 0.59 and 0.11, in units of 2^-20, 2^-40, 2^-60.
Weight_R == <<314572, 838860, 838848>>
Weight_G == <<618659, 880803, 880768>>
Weight_B == <<115343, 377487, 377488>>

MulDouble(k, n) == RoundDouble(Carry(0, k[1] * n, k[2] * n, k[3] * n))

AddDouble(v, w) ==
    RoundDouble(Carry(v[1] + w[1], v[2] + w[2], v[3] + w[3], v[4] + w[4]))

\* static_cast<unsigned char>(0.3*R + 0.59*G + 0.11*B)
Gray(R, G, B) ==
    AddDouble(AddDouble(MulDouble(Weight_R, R), MulDouble(Weight_G, G)),
              MulDouble(Weight_B, B))[1]

\* The Grayscale loop from byte index i (from 0) on, n = width*height*channels.
\* A read past the end of m_pixels yields the byte g that happens to lie
\* there; a write past the end lands outside the vector.  The result is the
\* vector's bytes and the set of indices touched outside it.
RECURSIVE GrayLoop(_, _, _, _, _)
GrayLoop(px, i, n, c, g) ==
    IF i >= n THEN [px |-> px, outside |-> {}]
    ELSE LET rd(j) == IF j < Len(px) THEN px[j + 1] ELSE g
             gray == Gray(rd(i), rd(i + 1), rd(i + 2))
             wr == [j \in 1..Len(px) |->
                      IF j - 1 \in {i, i + 1, i + 2} THEN gray ELSE px[j]]
             rest == GrayLoop(wr, i + c, n, c, g)
         IN  [px |-> rest.px,
              outside |-> rest.outside
                            \cup {j \in {i, i + 1, i + 2} : j >= Len(px)}]

Invert(b) == 255 - b

\* std::min(255, px + 50)
Brightness(b) == IF b + 50 > 255 THEN 255 ELSE b + 50

\* std::min(255, std::max(0, int((px-128)*1.2 + 128))): for every byte the
\* double expression truncates to the same integer as (6*px - 128)/5.
Contrast(b) ==
    LET v == Trunc(6 * b - 128, 5)
    IN  IF v < 0 THEN 0 ELSE IF v > 255 THEN 255 ELSE v

PerByte(type, b) ==
    CASE type = "Invert" -> Invert(b)
      [] type = "Brightness" -> Brightness(b)
      [] type = "Contrast" -> Contrast(b)

FilterTypes == {"Grayscale", "Invert", "Brightness", "Contrast"}

\* What may lie just past the end of m_pixels.
Garbage == {0, 255}

ApplyFilter(type) ==
    /\ Running /\ ops < MaxOps
    /\ IF type = "Grayscale"
       THEN \E g \in Garbage :
              LET r == GrayLoop(img.px, 0, img.w * img.h * img.c, img.c, g)
              IN  /\ img' = [img EXCEPT !.px = r.px]
                  /\ call' = [op |-> "applyFilter", type |-> type,
                              outside |-> r.outside,
                              ret |-> IF r.outside = {} THEN "ok" ELSE "ub"]
       ELSE /\ img' = [img EXCEPT
                         !.px = [j \in 1..Len(img.px) |-> PerByte(type, img.px[j])]]
            /\ call' = [op |-> "applyFilter", type |-> type,
                        outside |-> {}, ret |-> "ok"]
    /\ streak' = Restart(img')
    /\ ops' = ops + 1
    /\ UNCHANGED listVars

(***************************************************************************)
(* std::shared_ptr<Image> Image::generateThumbnail(maxWidth, maxHeight)    *)
(***************************************************************************)
\* float(a)/b as <<p, q>> with q >= 0; q = 0 is the outcome of dividing by
\* zero: +infinity (p > 0), -infinity (p < 0) or NaN (p = 0).
Quotient(a, b) == IF b < 0 THEN <<-a, -b>> ELSE <<a, b>>

IsNaN(f) == f[2] = 0 /\ f[1] = 0

\* f < g on floats; every comparison with a NaN is false.
FloatLess(f, g) ==
    IF IsNaN(f) \/ IsNaN(g) THEN FALSE
    ELSE IF f[2] = 0 /\ g[2] = 0 THEN f[1] < 0 /\ g[1] > 0
    ELSE IF f[2] = 0 THEN f[1] < 0
    ELSE IF g[2] = 0 THEN g[1] > 0
    ELSE f[1] * g[2] < g[1] * f[2]

\* std::min(a, b) is (b < a) ? b : a
FloatMin(a, b) == IF FloatLess(b, a) THEN b ELSE a

ScaleFactor(i, maxWidth, maxHeight) ==
    FloatMin(Quotient(maxWidth, i.w), Quotient(maxHeight, i.h))

ThumbArgs == {-1, 0, 1, 2, 3}

NoImage == [w |-> 0, h |-> 0, c |-> 0, px |-> <<"none">>]

GenerateThumbnail(maxWidth, maxHeight) ==
    /\ Running
    /\ LET f == ScaleFactor(img, maxWidth, maxHeight)
           copy == UpdatePixelData(img.px, img.w, img.h, img.c)
           done(r, t) == [op |-> "generateThumbnail", maxW |-> maxWidth,
                          maxH |-> maxHeight, ret |-> r, thumb |-> t]
       IN  IF f[2] = 0 /\ f[1] >= 0
           THEN \* scale(+infinity) or scale(NaN) passes the factor <= 0 test
                \* and converts an infinity or a NaN to int: undefined.  The
                \* build may crash or hand back an Image with any size; x86
                \* yields INT_MIN for both sides and no pixels.
                \/ call' = done("ub", NoImage)
                \/ call' = done("ub", [w |-> IntMin, h |-> IntMin,
                                       c |-> img.c, px |-> <<>>])
           ELSE IF f[2] = 0
           THEN call' = done("ok", copy)
           ELSE IF ScaleThrows(copy, f[1], f[2])
           THEN call' = done("throw", NoImage)
           ELSE call' = done("ok", Scale(copy, f[1], f[2]))
    /\ streak' = Restart(img)
    /\ UNCHANGED <<img, ops, listVars>>

(***************************************************************************)
(* ImageList: m_images guarded by m_mutex.                                 *)
(*                                                                         *)
(* std::mutex is taken to block a thread that locks it again (the default  *)
(* pthread mutex), and unlock() is called only by the thread that called   *)
(* lock(), as std::mutex requires.                                         *)
(***************************************************************************)
Threads == {"t1", "t2"}

\* The shared_ptr<Image> values handed to add().
Handles == {"a", "b", "c"}

\* The index arguments explored: 0 .. MaxCalls - 1.
Indexes == 0..(MaxCalls - 1)

\* The comparators handed to sort(): each compares a rank of the two
\* Images, which makes it a strict weak ordering; Images of one rank are
\* equivalent.
Comparators == { [a |-> 0, b |-> 0, c |-> 1],
                 [a |-> 0, b |-> 1, c |-> 2],
                 [a |-> 0, b |-> 0, c |-> 0] }

Less(cmp, x, y) == cmp[x] < cmp[y]

None == "none"
Null == "null"
NoCall == [name |-> "none"]

Methods ==
    {[name |-> "add", img |-> x] : x \in Handles}
      \cup {[name |-> "remove", index |-> i] : i \in Indexes}
      \cup {[name |-> "at", index |-> i] : i \in Indexes}
      \cup {[name |-> "count"], [name |-> "shuffle"]}
      \cup {[name |-> "sort", cmp |-> c] : c \in Comparators}

\* A range test that lets the index one past the end through.
OutOfRangePastEnd(index, size) == index > size

\* index >= m_images.size()
OutOfRange(index, size) == index >= size

\* m_images.erase(m_images.begin() + index): the later entries move down
Erase(v, index) ==
    [j \in 1..(Len(v) - 1) |-> IF j <= index THEN v[j] ELSE v[j + 1]]

\* The orders of v's entries.
Orders(v) ==
    { [j \in 1..Len(v) |-> v[f[j]]] : f \in Permutations(1..Len(v)) }

Sorted(v, cmp) ==
    \A i \in 1..Len(v), j \in 1..Len(v) : i < j => ~Less(cmp, v[j], v[i])

\* A sort that compares the other way round.
StdSortDescending(v, cmp) ==
    { s \in Orders(v) :
        \A i \in 1..Len(s), j \in 1..Len(s) : i < j => ~Less(cmp, s[i], s[j]) }

\* std::sort(first, last, comp): the entries in an order sorted by comp;
\* the order of equivalent entries is not guaranteed to be kept.
StdSort(v, cmp) == { s \in Orders(v) : Sorted(s, cmp) }

\* std::shuffle(first, last, g)
StdShuffle(v) == Orders(v)

\* A lock that does not wait for the mutex to be free.
MutexLockNoWait(t) == m_mutex' = TRUE

\* A recursive lock: the thread that holds the mutex may lock it again.
MutexLockRecursive(t) == (~m_mutex \/ ext[t]) /\ m_mutex' = TRUE

\* std::mutex::lock(): blocks while the mutex is locked
MutexLock(t) == ~m_mutex /\ m_mutex' = TRUE

\* std::mutex::unlock()
MutexUnlock == m_mutex' = FALSE

(***************************************************************************)
(* The abstract sequence.                                                  *)
(***************************************************************************)
SeqAdd(s, x) == Append(s, x)

SeqRemove(s, i) ==
    IF i < Len(s) THEN SubSeq(s, 1, i) \o SubSeq(s, i + 2, Len(s)) ELSE s

SeqAt(s, i) == IF i < Len(s) THEN s[i + 1] ELSE Null

\* scen after one more call that changes the list
Follow(o) ==
    IF scen = 0 /\ o = [name |-> "add", img |-> "a"] THEN 1
    ELSE IF scen = 1 /\ o = [name |-> "add", img |-> "b"] THEN 2
    ELSE IF scen = 2 /\ o = [name |-> "remove", index |-> 0] THEN 3
    ELSE -1

(***************************************************************************)
(* A call: the thread enters the method, constructs the lock_guard, runs  *)
(* the body, and destroys the lock_guard as it returns.                    *)
(***************************************************************************)
Enter(t, o) ==
    /\ pc[t] = "idle" /\ calls < MaxCalls
    /\ pc' = [pc EXCEPT ![t] = "acquire"]
    /\ op' = [op EXCEPT ![t] = o]
    /\ calls' = calls + 1
    /\ UNCHANGED <<m_images, m_mutex, ext, ret, before, serial, expect, scen,
                   fault, imageVars>>

\* std::lock_guard<std::mutex> lock(m_mutex);
Acquire(t) ==
    /\ pc[t] = "acquire"
    /\ MutexLock(t)
    /\ pc' = [pc EXCEPT ![t] = "body"]
    /\ UNCHANGED <<m_images, op, ext, ret, before, serial, expect, scen,
                   calls, fault, imageVars>>

\* void ImageList::add(img)
Add(t) ==
    /\ pc[t] = "body" /\ op[t].name = "add"
    /\ m_images' = Append(m_images, op[t].img)
    /\ serial' = SeqAdd(serial, op[t].img)
    /\ scen' = Follow(op[t])
    /\ pc' = [pc EXCEPT ![t] = "return"]
    /\ UNCHANGED <<m_mutex, op, ext, ret, before, expect, calls, fault,
                   imageVars>>

\* void ImageList::remove(index): the range test, then the erase
RemoveCheck(t) ==
    /\ pc[t] = "body" /\ op[t].name = "remove"
    /\ pc' = [pc EXCEPT ![t] =
                IF OutOfRange(op[t].index, Len(m_images))
                THEN "return" ELSE "erase"]
    /\ serial' = SeqRemove(serial, op[t].index)
    /\ scen' = Follow(op[t])
    /\ UNCHANGED <<m_images, m_mutex, op, ext, ret, before, expect, calls,
                   fault, imageVars>>

RemoveErase(t) ==
    /\ pc[t] = "erase"
    /\ IF op[t].index < Len(m_images)
       THEN m_images' = Erase(m_images, op[t].index) /\ fault' = fault
       ELSE m_images' = m_images /\ fault' = TRUE
    /\ pc' = [pc EXCEPT ![t] = "return"]
    /\ UNCHANGED <<m_mutex, op, ext, ret, before, serial, expect, scen,
                   calls, imageVars>>

\* std::shared_ptr<Image> ImageList::at(index): the range test, then the read
AtCheck(t) ==
    /\ pc[t] = "body" /\ op[t].name = "at"
    /\ IF OutOfRange(op[t].index, Len(m_images))
       THEN /\ ret' = [ret EXCEPT ![t] = Null]
            /\ pc' = [pc EXCEPT ![t] = "return"]
       ELSE /\ ret' = ret
            /\ pc' = [pc EXCEPT ![t] = "read"]
    /\ expect' = [expect EXCEPT ![t] = SeqAt(serial, op[t].index)]
    /\ UNCHANGED <<m_images, m_mutex, op, ext, before, serial, scen, calls,
                   fault, imageVars>>

AtRead(t) ==
    /\ pc[t] = "read"
    /\ IF op[t].index < Len(m_images)
       THEN /\ ret' = [ret EXCEPT ![t] = m_images[op[t].index + 1]]
            /\ fault' = fault
       ELSE /\ \E x \in Handles \cup {Null} : ret' = [ret EXCEPT ![t] = x]
            /\ fault' = TRUE
    /\ pc' = [pc EXCEPT ![t] = "return"]
    /\ UNCHANGED <<m_images, m_mutex, op, ext, before, serial, expect, scen,
                   calls, imageVars>>

\* size_t ImageList::count() const
Count(t) ==
    /\ pc[t] = "body" /\ op[t].name = "count"
    /\ ret' = [ret EXCEPT ![t] = Len(m_images)]
    /\ expect' = [expect EXCEPT ![t] = Len(serial)]
    /\ pc' = [pc EXCEPT ![t] = "return"]
    /\ UNCHANGED <<m_images, m_mutex, op, ext, before, serial, scen, calls,
                   fault, imageVars>>

\* void ImageList::shuffle()
Shuffle(t) ==
    /\ pc[t] = "body" /\ op[t].name = "shuffle"
    /\ \E s \in StdShuffle(m_images) : m_images' = s /\ serial' = s
    /\ scen' = Follow(op[t])
    /\ pc' = [pc EXCEPT ![t] = "return"]
    /\ UNCHANGED <<m_mutex, op, ext, ret, before, expect, calls, fault,
                   imageVars>>

\* void ImageList::sort(comparator)
Sort(t) ==
    /\ pc[t] = "body" /\ op[t].name = "sort"
    /\ \E s \in StdSort(m_images, op[t].cmp) : m_images' = s /\ serial' = s
    /\ before' = [before EXCEPT ![t] = m_images]
    /\ scen' = Follow(op[t])
    /\ pc' = [pc EXCEPT ![t] = "return"]
    /\ UNCHANGED <<m_mutex, op, ext, ret, expect, calls, fault, imageVars>>

\* The return: ~lock_guard() unlocks the mutex.
Return(t) ==
    /\ pc[t] = "return"
    /\ MutexUnlock
    /\ pc' = [pc EXCEPT ![t] = "idle"]
    /\ op' = [op EXCEPT ![t] = NoCall]
    /\ ret' = [ret EXCEPT ![t] = None]
    /\ expect' = [expect EXCEPT ![t] = None]
    /\ before' = [before EXCEPT ![t] = <<>>]
    /\ UNCHANGED <<m_images, ext, serial, scen, calls, fault, imageVars>>

\* void ImageList::lock(): the call, and m_mutex.lock() getting the mutex
Lock(t) ==
    /\ pc[t] = "idle" /\ calls < MaxCalls
    /\ pc' = [pc EXCEPT ![t] = "lock"]
    /\ op' = [op EXCEPT ![t] = [name |-> "lock"]]
    /\ calls' = calls + 1
    /\ UNCHANGED <<m_images, m_mutex, ext, ret, before, serial, expect, scen,
                   fault, imageVars>>

LockAcquire(t) ==
    /\ pc[t] = "lock"
    /\ MutexLock(t)
    /\ ext' = [ext EXCEPT ![t] = TRUE]
    /\ pc' = [pc EXCEPT ![t] = "idle"]
    /\ op' = [op EXCEPT ![t] = NoCall]
    /\ UNCHANGED <<m_images, ret, before, serial, expect, scen, calls, fault,
                   imageVars>>

\* void ImageList::unlock()
Unlock(t) ==
    /\ pc[t] = "idle" /\ ext[t]
    /\ MutexUnlock
    /\ ext' = [ext EXCEPT ![t] = FALSE]
    /\ UNCHANGED <<m_images, pc, op, ret, before, serial, expect, scen, calls,
                   fault, imageVars>>

Init ==
    /\ img = EmptyImage
    /\ call = [op |-> "Image", ret |-> "ok"]
    /\ streak = Restart(EmptyImage)
    /\ ops = 0
    /\ m_images = <<>>
    /\ m_mutex = FALSE
    /\ pc = [t \in Threads |-> "idle"]
    /\ op = [t \in Threads |-> NoCall]
    /\ ext = [t \in Threads |-> FALSE]
    /\ ret = [t \in Threads |-> None]
    /\ before = [t \in Threads |-> <<>>]
    /\ serial = <<>>
    /\ expect = [t \in Threads |-> None]
    /\ scen = 0
    /\ calls = 0
    /\ fault = FALSE

Next ==
    \/ \E f \in Paths : LoadFromFile(f)
    \/ \E f \in Files, xw \in Spans, yh \in Spans :
         LoadPartial(f, xw[1], yh[1], xw[2], yh[2])
    \/ LoadPartial(NoFile, 0, 0, 1, 1)
    \/ DoRotateClockwise
    \/ DoRotateCounterClockwise
    \/ \E p \in ScaleNums : DoScale(p)
    \/ \E type \in FilterTypes : ApplyFilter(type)
    \/ \E maxWidth \in ThumbArgs, maxHeight \in ThumbArgs :
         GenerateThumbnail(maxWidth, maxHeight)

Spec == Init /\ [][Next]_vars

(***************************************************************************)
(* The rotations alone, starting from an Image that holds a decoded file   *)
(* of any width and height up to MaxSide (0 for an empty region) and 1..4  *)
(* channels, its bytes all different.                                      *)
(***************************************************************************)
Loaded ==
    { DecodedFile(width, height, channels) :
        width \in 0..MaxSide, height \in 0..MaxSide, channels \in 1..4 }

InitRotate ==
    /\ img \in Loaded
    /\ call = [op |-> "loadFromFile", file |-> img, ret |-> "true"]
    /\ streak = Restart(img)
    /\ ops = 1
    /\ m_images = <<>>
    /\ m_mutex = FALSE
    /\ pc = [t \in Threads |-> "idle"]
    /\ op = [t \in Threads |-> NoCall]
    /\ ext = [t \in Threads |-> FALSE]
    /\ ret = [t \in Threads |-> None]
    /\ before = [t \in Threads |-> <<>>]
    /\ serial = <<>>
    /\ expect = [t \in Threads |-> None]
    /\ scen = 0
    /\ calls = 0
    /\ fault = FALSE

NextRotate ==
    \/ DoRotateClockwise
    \/ DoRotateCounterClockwise

SpecRotate == InitRotate /\ [][NextRotate]_vars

NextList ==
    \E t \in Threads :
        \/ \E o \in Methods : Enter(t, o)
        \/ Acquire(t)
        \/ Add(t)
        \/ RemoveCheck(t)
        \/ RemoveErase(t)
        \/ AtCheck(t)
        \/ AtRead(t)
        \/ Count(t)
        \/ Shuffle(t)
        \/ Sort(t)
        \/ Return(t)
        \/ Lock(t)
        \/ LockAcquire(t)
        \/ Unlock(t)

SpecList == Init /\ [][NextList]_vars

(***************************************************************************)
(* Properties of the Image.                                                *)
(***************************************************************************)
\* The data model's invariant: sizes are not negative and m_pixels holds
\* exactly width*height*channels bytes.
WellFormed(i) ==
    /\ i.w >= 0
    /\ i.h >= 0
    /\ Len(i.px) = i.w * i.h * i.c

ValidImage(i) == WellFormed(i) /\ i.c \in 1..4

\* x + w > limit over the integers, for x + w that may not fit an int
Exceeds(x, w, limit) == IF AddOverflows(x, w) THEN w > 0 ELSE x + w > limit

\* C1: in every state reached from the empty Image by loadFromFile,
\* loadPartial, the rotations, scale, applyFilter and generateThumbnail,
\* width >= 0, height >= 0 and the pixel bytes number
\* width*height*channels; the same holds of the Image generateThumbnail
\* returns.  (Stated for the runs in which no call had undefined behaviour.)
C1_LengthInvariant ==
    Running =>
        /\ WellFormed(img)
        /\ (call.op = "generateThumbnail" /\ call.ret = "ok")
              => WellFormed(call.thumb)

\* The part of C1 the code keeps: the byte count always matches the sizes.
C1_LengthOnly ==
    Running =>
        /\ Len(img.px) = img.w * img.h * img.c
        /\ (call.op = "generateThumbnail" /\ call.ret = "ok")
              => Len(call.thumb.px) = call.thumb.w * call.thumb.h * call.thumb.c

\* C2: loadPartial on a decodable file returns false and leaves the Image
\* as it was whenever x < 0, y < 0, x + w > decodedWidth or
\* y + h > decodedHeight; when it returns true the Image is w wide, h high,
\* has the file's channels, and its byte (r, c, k) is the decoded byte
\* (y + r, x + c, k).
LoadPartialContract ==
    LET f == call'.file
        x == call'.x
        y == call'.y
        w == call'.w
        h == call'.h
    IN
    /\ (x < 0 \/ y < 0 \/ Exceeds(x, w, f.w) \/ Exceeds(y, h, f.h))
          => (call'.ret = "false" /\ img' = img)
    /\ call'.ret = "true" =>
          /\ img'.w = w /\ img'.h = h /\ img'.c = f.c
          /\ \A r \in 0..(h - 1), c \in 0..(w - 1), k \in 0..(f.c - 1) :
                img'.px[(r * w + c) * f.c + k + 1]
                    = f.px[((y + r) * f.w + x + c) * f.c + k + 1]

C2_LoadPartialContract ==
    [][(call'.op = "loadPartial" /\ call'.file # NoFile)
          => LoadPartialContract]_vars

\* C2 for the arguments whose sums x + w and y + h fit an int.
C2_WithoutOverflow ==
    [][(/\ call'.op = "loadPartial" /\ call'.file # NoFile
        /\ ~AddOverflows(call'.x, call'.w) /\ ~AddOverflows(call'.y, call'.h))
          => LoadPartialContract]_vars

\* C6: on an Image that satisfies the invariant, with 1..4 channels, four
\* quarter turns clockwise in a row (rotateClockwise four times, or
\* rotateCounterClockwise, which is three of them, next to one
\* rotateClockwise) give back the width, height and bytes it started with.
C6_FourQuarterTurns ==
    (ValidImage(streak.base) /\ streak.turns = 4) => img = streak.base

C6_Witness ==
    /\ streak.turns = 4
    /\ call.op = "rotateClockwise"
    /\ ValidImage(streak.base)
    /\ streak.base.w = 2 /\ streak.base.h = 1 /\ streak.base.c = 3
    /\ streak.base.px[1] # streak.base.px[4]

\* C7: scale(factor) with factor <= 0 changes nothing; with factor > 0 the
\* width becomes floor(width*factor), the height floor(height*factor), and
\* each destination pixel (x, y) is the source pixel (floor(x/factor),
\* floor(y/factor)), which lies inside the source image; scale(1.0) leaves
\* width, height and bytes as they were.  The factor is p/2.
Floor(n, d) == n \div d

ScaleContract(p) ==
    /\ p <= 0 => img' = img
    /\ p = 2 => img' = img
    /\ p > 0 =>
          /\ img'.w = Floor(img.w * p, 2)
          /\ img'.h = Floor(img.h * p, 2)
          /\ img'.c = img.c
          /\ \A x \in 0..(img'.w - 1), y \in 0..(img'.h - 1) :
                LET srcX == Floor(x * 2, p)
                    srcY == Floor(y * 2, p)
                IN  /\ 0 <= srcX /\ srcX < img.w
                    /\ 0 <= srcY /\ srcY < img.h
                    /\ \A k \in 0..(img.c - 1) :
                          img'.px[(y * img'.w + x) * img.c + k + 1]
                              = img.px[(srcY * img.w + srcX) * img.c + k + 1]

C7_ScaleContract ==
    [][call'.op = "scale" => ScaleContract(call'.num)]_vars

\* C7 for the calls made on an Image that satisfies the invariant.
C7_OnWellFormed ==
    [][(call'.op = "scale" /\ WellFormed(img)) => ScaleContract(call'.num)]_vars

\* C8: on an Image at least 1 wide and 1 high, for all int W and H,
\* generateThumbnail(W, H) returns an Image at most W wide and H high, and
\* leaves the Image it was called on as it was.
C8_ThumbnailFits ==
    [][(call'.op = "generateThumbnail" /\ img.w >= 1 /\ img.h >= 1)
          => /\ call'.ret = "ok"
             /\ call'.thumb.w <= call'.maxW
             /\ call'.thumb.h <= call'.maxH
             /\ img' = img]_vars

\* C8 for W >= 1 and H >= 1.
C8_PositiveBox ==
    [][(/\ call'.op = "generateThumbnail"
        /\ img.w >= 1 /\ img.h >= 1 /\ call'.maxW >= 1 /\ call'.maxH >= 1)
          => /\ call'.ret = "ok"
             /\ call'.thumb.w <= call'.maxW
             /\ call'.thumb.h <= call'.maxH
             /\ img' = img]_vars

\* C10: on an Image that satisfies the invariant, with any of 1..4
\* channels, applyFilter(Grayscale) touches only the byte indices
\* 0 .. width*height*channels - 1, sets the bytes at channel offsets 0, 1, 2
\* of each pixel to trunc(0.3*R + 0.59*G + 0.11*B) of that pixel's original
\* bytes, and leaves a fourth byte, the width, the height and the channel
\* count as they were.
GrayscaleContract ==
    /\ call'.outside = {}
    /\ img'.w = img.w /\ img'.h = img.h /\ img'.c = img.c
    /\ Len(img'.px) = Len(img.px)
    /\ \A j \in 0..(img.w * img.h - 1) :
          LET at == j * img.c
              gray == Gray(img.px[at + 1], img.px[at + 2], img.px[at + 3])
          IN  /\ \A k \in 1..3 : img'.px[at + k] = gray
              /\ img.c = 4 => img'.px[at + 4] = img.px[at + 4]

IsGrayscale(c) == c.op = "applyFilter" /\ c.type = "Grayscale"

C10_GrayscaleInBounds ==
    [][(IsGrayscale(call') /\ ValidImage(img)) => GrayscaleContract]_vars

\* C10 for 3 and 4 channels.
C10_ThreeOrFourChannels ==
    [][(IsGrayscale(call') /\ ValidImage(img) /\ img.c >= 3)
          => GrayscaleContract]_vars


(***************************************************************************)
(* Properties of ImageList, checked under SpecList.                        *)
(***************************************************************************)
\* Thread t holds m_mutex: its lock_guard is alive, or it has called lock().
InGuard(t) == pc[t] \in {"body", "erase", "read", "return"}
Holds(t) == InGuard(t) \/ ext[t]
Quiescent == \A t \in Threads : ~InGuard(t)
Answered(t) == pc[t] = "return" /\ op[t].name \in {"at", "count"}

\* C3: ImageList refines a finite sequence. After any calls of add, remove,
\* at and count (and shuffle and sort) the entries are those of the abstract
\* sequence, in order; at(i) answers its i-th entry for 0 <= i < count() and
\* null from count() on; count() answers its length; remove(i) past the end
\* changes nothing and never indexes out of range. After add(a); add(b);
\* remove(0), count() answers 1 and at(0) answers b.
C3_RefinesSequence ==
    /\ ~fault
    /\ Quiescent => m_images = serial
    /\ \A t \in Threads :
        /\ Answered(t) => ret[t] = expect[t]
        /\ (Answered(t) /\ op[t].name = "at") =>
              ret[t] = (IF op[t].index < Len(m_images)
                        THEN m_images[op[t].index + 1] ELSE Null)
        /\ (Answered(t) /\ scen = 3 /\ op[t].name = "count") => ret[t] = 1
        /\ (Answered(t) /\ scen = 3 /\ op[t] = [name |-> "at", index |-> 0])
              => ret[t] = "b"

C3_Witness ==
    /\ scen = 3
    /\ m_images = <<"b">>
    /\ \E t \in Threads :
          pc[t] = "return" /\ op[t] = [name |-> "at", index |-> 0]
            /\ ret[t] = "b" /\ expect[t] = "b"

\* C4: mutual exclusion. At most one thread holds m_mutex at a time; the
\* mutex is locked exactly while some thread holds it, so every return path
\* has released it; and whenever no thread is inside a method body the
\* entries are what the calls made so far give when each takes effect alone,
\* one after the other.
C4_MutualExclusion ==
    /\ \A t, u \in Threads : (Holds(t) /\ Holds(u)) => t = u
    /\ m_mutex <=> (\E t \in Threads : Holds(t))
    /\ \A t \in Threads : pc[t] = "idle" => (op[t] = NoCall /\ ~InGuard(t))
    /\ Quiescent => m_images = serial
    /\ ~fault

C4_Witness ==
    \E t, u \in Threads :
        /\ pc[t] = "erase" /\ pc[u] = "acquire"
        /\ op[u].name = "remove" /\ op[t].index = 0 /\ op[u].index = 0
        /\ Len(m_images) = 1

\* Thread t holds the mutex through lock() and is inside one of the six
\* locking methods, at the construction of its lock_guard.
Reentered(t) == ext[t] /\ pc[t] = "acquire"
Waiting(t) == pc[t] \in {"acquire", "lock"}

\* C5: a thread that still holds the mutex it took with lock() and calls one
\* of the six locking methods never returns from that call, and from then on
\* no thread waiting for the mutex ever gets it.
C5_ReentrantDeadlock ==
    [][\A t \in Threads : Reentered(t) =>
          /\ Reentered(t)' /\ op'[t] = op[t]
          /\ m_mutex /\ m_mutex'
          /\ m_images' = m_images
          /\ \A u \in Threads : Waiting(u) => (Waiting(u)' /\ op'[u] = op[u])
      ]_vars

C5_Witness ==
    \E t, u \in Threads :
        /\ t # u
        /\ Reentered(t) /\ op[t].name = "count"
        /\ pc[u] = "acquire" /\ op[u].name = "add"
        /\ m_mutex /\ m_images = <<>>

Equivalent(cmp, x, y) == ~Less(cmp, x, y) /\ ~Less(cmp, y, x)
Occurrences(v, x) == Cardinality({j \in 1..Len(v) : v[j] = x})
SameEntries(v, s) ==
    Len(v) = Len(s) /\ \A x \in Handles : Occurrences(v, x) = Occurrences(s, x)
Sorting(t) == pc[t] = "return" /\ op[t].name = "sort"

\* The stable sort of v by cmp: each entry is put behind the entries before
\* it that are not greater.
RECURSIVE Insert(_, _, _)
Insert(s, x, cmp) ==
    IF s = <<>> THEN <<x>>
    ELSE IF Less(cmp, x, s[Len(s)])
         THEN Append(Insert(SubSeq(s, 1, Len(s) - 1), x, cmp), s[Len(s)])
         ELSE Append(s, x)

RECURSIVE StableOrder(_, _)
StableOrder(v, cmp) ==
    IF v = <<>> THEN <<>>
    ELSE Insert(StableOrder(SubSeq(v, 1, Len(v) - 1), cmp), v[Len(v)], cmp)

\* C9 as stated: sort(cmp) leaves the entries sorted by cmp and keeps the
\* order the equivalent entries had before the call.
C9_SortStable ==
    \A t \in Threads : Sorting(t) => m_images = StableOrder(before[t], op[t].cmp)

\* C9: sort(cmp) leaves the same entries, in an order in which no entry is
\* less by cmp than an entry before it; the order of equivalent entries is
\* not determined.
C9_SortedSameEntries ==
    \A t \in Threads : Sorting(t) =>
        /\ SameEntries(before[t], m_images)
        /\ Sorted(m_images, op[t].cmp)

C9_Witness ==
    \E t \in Threads :
        /\ Sorting(t)
        /\ before[t] = <<"c", "a", "b">>
        /\ m_images = <<"b", "a", "c">>
        /\ op[t].cmp = [a |-> 0, b |-> 0, c |-> 1]

====
